---- MODULE Spec2Model ----
(***************************************************************************)
(* Model of src/main.py: the /scrape/{username} endpoint (get_user), the   *)
(* Apify job poller (fetch_from_apify), the process-wide CACHE / STATS /   *)
(* LOCK, and the /stats endpoint (get_stats).                              *)
(*                                                                         *)
(* The program is an asyncio application: any number of request handlers   *)
(* are in flight, one runs at a time, and a handler can only be suspended  *)
(* at an await.  Each action below is the code of one handler between two  *)
(* awaits.  `async with LOCK` is an await (the handler is suspended while  *)
(* another one holds the lock), so taking the lock is a step of its own.   *)
(***************************************************************************)
EXTENDS Integers, Sequences, FiniteSets, TLC

\* ---------------------------------------------------------------- config
REQUEST_TIMEOUT == 60
POLL_INTERVAL == 1
MAX_WAIT_TIME == 15
CACHE_TTL == 300

\* ---------------------------------------------------------------- bounds
\* number of endpoint invocations (get_user or get_stats) in one behaviour
MaxCalls == 2
\* number of times the wall clock is observed to advance
MaxTicks == 1

\* request handlers that can be in flight at the same time
Tasks == {"t1", "t2"}

\* amounts by which the wall clock advances in one step: a cache entry is
\* looked up at the instant it was written and at the instant it expires
TickSteps == {CACHE_TTL}

\* Python's None (also what dict.get returns for a missing key)
None == "None"

\* ---------------------------------------------------------------- inputs
\* A username is the sequence of its characters.
LowerCase == {"a","b","c","d","e","f","g","h","i","j","k","l","m",
              "n","o","p","q","r","s","t","u","v","w","x","y","z"}
UpperCase == {"A","B","C","D","E","F","G","H","I","J","K","L","M",
              "N","O","P","Q","R","S","T","U","V","W","X","Y","Z"}
Digits == {"0","1","2","3","4","5","6","7","8","9"}
\* the character class [a-zA-Z0-9._]
UsernameChars == LowerCase \cup UpperCase \cup Digits \cup {".", "_"}

Nasa == <<"n","a","s","a">>
BadName == <<"b","a","d","/","n","a","m","e">>
AtName == <<"a","@">>
Empty == <<>>
Long31 == [i \in 1..31 |-> "a"]
NasaNewline == <<"n","a","s","a","\n">>

\* the usernames the callers send
Usernames == {Nasa, NasaNewline, BadName, AtName, Empty, Long31}

\* re.match(r"^[a-zA-Z0-9._]{1,30}$", username): 1 to 30 characters of the
\* class from the start of the string, then `$`.  In Python `$` matches at
\* the end of the string and also just before a newline that is the last
\* character of the string.
validate_username(u) ==
    \E n \in 1..30 :
        /\ n <= Len(u)
        /\ \A i \in 1..n : u[i] \in UsernameChars
        /\ \/ n = Len(u)
           \/ n + 1 = Len(u) /\ u[n + 1] = "\n"

\* The language of the key grammar ^[A-Za-z0-9._]{1,30}$ itself: strings of
\* 1 to 30 characters of the class and nothing else.
InGrammar(u) ==
    /\ Len(u) \in 1..30
    /\ \A i \in 1..Len(u) : u[i] \in UsernameChars

\* ------------------------------------------------- what the remote side answers
\* First elements of the dataset collection.  A dict is the function from
\* its keys to its values; isdict is FALSE for a JSON value that is not an
\* object (a string, a number), on which .get does not exist.
ProfileFull ==
    [isdict |-> TRUE,
     fields |-> [username |-> "nasa", fullName |-> "NASA",
                 profilePicUrl |-> "http://pic", followersCount |-> "100",
                 followsCount |-> "5", postsCount |-> "7",
                 biography |-> "space", isVerified |-> "true"]]
ProfileSparse ==
    [isdict |-> TRUE,
     fields |-> [username |-> "nasa", followersCount |-> "100"]]
ProfileNotFound ==
    [isdict |-> TRUE, fields |-> [error |-> "not_found"]]
NotADict ==
    [isdict |-> FALSE, fields |-> [value |-> "oops"]]
\* the body of an error answer of the dataset API
ErrorBody ==
    [isdict |-> TRUE, fields |-> [message |-> "Internal Server Error"]]

\* answers to client.post(APIFY_RUN_URL): a transport failure
\* (httpx.RequestError), or a response with a status code and a body that
\* has or lacks data.id / data.defaultDatasetId
RunResponses ==
    {[transport |-> "RequestError", status_code |-> 0, has_ids |-> FALSE],
     [transport |-> "ok", status_code |-> 500, has_ids |-> FALSE],
     [transport |-> "ok", status_code |-> 200, has_ids |-> TRUE],
     [transport |-> "ok", status_code |-> 201, has_ids |-> FALSE],
     [transport |-> "ok", status_code |-> 201, has_ids |-> TRUE]}

\* the run statuses of the actor; the last three end the run unsuccessfully
RunFailedStatuses == {"FAILED", "ABORTED", "TIMED-OUT"}
RunStatuses == {"READY", "RUNNING", "SUCCEEDED"} \cup RunFailedStatuses

\* answers to client.get(status_url): a transport failure, a body without
\* data.status, or a body with data.status
StatusResponses ==
    {[transport |-> "RequestError", has_status |-> FALSE, status |-> None],
     [transport |-> "ok", has_status |-> FALSE, status |-> None]}
    \cup {[transport |-> "ok", has_status |-> TRUE, status |-> s] :
             s \in RunStatuses}

\* answers to client.get(dataset_url); json is "invalid" when the body does
\* not parse, "object" when it parses to something that is not a list
DatasetResponses ==
    {[transport |-> "RequestError", status_code |-> 0, json |-> "invalid",
      items |-> <<>>],
     [transport |-> "ok", status_code |-> 500, json |-> "list",
      items |-> <<ErrorBody>>],
     [transport |-> "ok", status_code |-> 200, json |-> "invalid",
      items |-> <<>>],
     [transport |-> "ok", status_code |-> 200, json |-> "object",
      items |-> <<>>],
     [transport |-> "ok", status_code |-> 200, json |-> "list",
      items |-> <<>>],
     [transport |-> "ok", status_code |-> 200, json |-> "list",
      items |-> <<ProfileNotFound, ProfileFull>>],
     [transport |-> "ok", status_code |-> 200, json |-> "list",
      items |-> <<NotADict>>],
     [transport |-> "ok", status_code |-> 200, json |-> "list",
      items |-> <<ProfileFull>>],
     [transport |-> "ok", status_code |-> 200, json |-> "list",
      items |-> <<ProfileSparse, ProfileFull>>]}

\* ---------------------------------------------------------------- helpers
\* dict.get(key): the value, or None when the key is missing
Get(d, key) == IF key \in DOMAIN d THEN d[key] ELSE None

format_profile(profile) ==
    [username |-> Get(profile, "username"),
     real_name |-> Get(profile, "fullName"),
     profile_pic |-> Get(profile, "profilePicUrl"),
     followers |-> Get(profile, "followersCount"),
     following |-> Get(profile, "followsCount"),
     post_count |-> Get(profile, "postsCount"),
     bio |-> Get(profile, "biography")]

\* the message is the sequence of its parts; the HTTP part is there only
\* for a truthy status code (0 stands for the default None)
format_error_message(context, attempt, error, status_code) ==
    <<"[", context, "] Attempt ", attempt, " failed">>
    \o (IF status_code # 0 THEN <<" | HTTP ", status_code>> ELSE <<>>)
    \o <<" | Error: ", error>>

\* raise HTTPException(status_code, detail); detail is a dict
HTTPException(status_code, detail) ==
    [raised |-> "HTTPException", status_code |-> status_code,
     detail |-> detail]
\* any other exception, with its str()
OtherException(type, text) ==
    [raised |-> type, status_code |-> 0, detail |-> [text |-> text]]
\* a handler that returns a dict: FastAPI answers 200 with it
Returned(value) ==
    [raised |-> "no", status_code |-> 200, detail |-> value]
\* no answer yet
NoResponse == [raised |-> "no", status_code |-> 0, detail |-> [text |-> None]]

\* ---------------------------------------------------------------- state
VARIABLES
    CACHE,      \* dict: username -> [data, expiry]
    STATS,      \* [hits, misses, last_alerts]
    LOCK,       \* the task holding the asyncio.Lock, or None
    now,        \* time.time()
    pc,         \* per task: the await at which the handler is suspended
    username,   \* per task: the argument of get_user
    elapsed,    \* per task: local of the running fetch_from_apify
    waited,     \* per task: seconds of wall clock the running
                \* fetch_from_apify has spent in its poll loop, counted up
                \* to WaitedCap
    formatted,  \* per task: local of get_user
    response,   \* per task: what the handler returned or raised
    requests,   \* per task: requests sent so far through the `client` of
                \* the running fetch_from_apify (the last one may still be
                \* waiting for its answer)
    calls,      \* endpoint invocations started so far
    ticks       \* clock advances so far

vars == <<CACHE, STATS, LOCK, now, pc, username, elapsed, waited, formatted,
          response, requests, calls, ticks>>

NoRequests == [post |-> 0, status |-> 0, dataset |-> 0]
NoProfile == format_profile(<<>>)

Init ==
    /\ CACHE = <<>>
    /\ STATS = [hits |-> 0, misses |-> 0, last_alerts |-> <<>>]
    /\ LOCK = None
    /\ now = 0
    /\ pc = [t \in Tasks |-> "idle"]
    /\ username = [t \in Tasks |-> <<>>]
    /\ elapsed = [t \in Tasks |-> 0]
    /\ waited = [t \in Tasks |-> 0]
    /\ formatted = [t \in Tasks |-> NoProfile]
    /\ response = [t \in Tasks |-> NoResponse]
    /\ requests = [t \in Tasks |-> NoRequests]
    /\ calls = 0
    /\ ticks = 0

\* ---------------------------------------------------------------- notifier
\* notify_telegram: append, keep the last 10
Last10(s) == IF Len(s) <= 10 THEN s ELSE SubSeq(s, Len(s) - 9, Len(s))
notify_telegram(stats, message) ==
    [stats EXCEPT !.last_alerts =
        Last10(Append(@, [time |-> now, msg |-> message]))]

\* ------------------------------------------------ how get_user ends on a raise
\* the try/except of get_user without its `except Exception` branch
RaiseUnwrapped(t, exc) ==
    /\ pc' = [pc EXCEPT ![t] = "done"]
    /\ elapsed' = [elapsed EXCEPT ![t] = 0]
    /\ waited' = [waited EXCEPT ![t] = 0]
    /\ requests' = [requests EXCEPT ![t] = NoRequests]
    /\ response' = [response EXCEPT ![t] = exc]
    /\ STATS' = STATS

\* fetch_from_apify raises exc: its `async with httpx.AsyncClient` block is
\* left, so its client and its locals are gone.  The try/except of get_user
\* around it re-raises an HTTPException as it is; any other exception is
\* formatted, sent to notify_telegram and replaced by HTTPException(500).
Raise(t, exc) ==
    /\ pc' = [pc EXCEPT ![t] = "done"]
    /\ elapsed' = [elapsed EXCEPT ![t] = 0]
    /\ waited' = [waited EXCEPT ![t] = 0]
    /\ requests' = [requests EXCEPT ![t] = NoRequests]
    /\ IF exc.raised = "HTTPException"
       THEN /\ response' = [response EXCEPT ![t] = exc]
            /\ STATS' = STATS
       ELSE /\ response' = [response EXCEPT ![t] =
                    HTTPException(500, [error |-> "INTERNAL_ERROR",
                                        detail |-> exc.detail.text])]
            /\ STATS' = notify_telegram(STATS,
                    format_error_message(username[t], 1, exc.detail.text, 0))

\* ---------------------------------------------------------------- get_user
\* the comparison of the cache check the wrong way round
LiveReversed(entry, t) == entry.expiry < t

\* the comparison of the cache check letting the instant of expiry in
LiveInclusive(entry, t) == entry.expiry >= t

\* cached["expiry"] > time.time()
Live(entry, t) == entry.expiry > t

\* `cached and cached["expiry"] > time.time()` for CACHE.get(u)
CacheHit(u) == u \in DOMAIN CACHE /\ Live(CACHE[u], now)

\* A request for /scrape/{u} arrives: validation, up to `async with LOCK`.
StartGetUser(t, u) ==
    /\ pc[t] = "idle"
    /\ calls < MaxCalls
    /\ calls' = calls + 1
    /\ username' = [username EXCEPT ![t] = u]
    /\ IF validate_username(u)
       THEN /\ pc' = [pc EXCEPT ![t] = "lock_check"]
            /\ response' = response
       ELSE /\ pc' = [pc EXCEPT ![t] = "done"]
            /\ response' = [response EXCEPT ![t] =
                   HTTPException(400,
                       [error |-> "INVALID_USERNAME",
                        message |-> <<"Instagram username format invalid">>])]
    /\ UNCHANGED <<CACHE, STATS, LOCK, now, elapsed, waited, formatted,
                   requests, ticks>>

\* `async with LOCK` of the cache check is entered.
AcquireCheck(t) ==
    /\ pc[t] = "lock_check"
    /\ LOCK = None
    /\ LOCK' = t
    /\ pc' = [pc EXCEPT ![t] = "check"]
    /\ UNCHANGED <<CACHE, STATS, now, username, elapsed, waited, formatted,
                   response, requests, calls, ticks>>

\* the fetch moved inside the `async with LOCK` block
LockKeptAfterMiss(t) == t

\* the holder of LOCK once the `async with LOCK` block of the cache check
\* is left on a miss
LockAfterMiss(t) == None

\* The cache check with single-flight: on a miss while another invocation
\* is fetching the same username, wait for that one and check again.
CacheCheckSingleFlight(t) ==
    /\ pc[t] = "check"
    /\ IF CacheHit(username[t])
       THEN /\ STATS' = [STATS EXCEPT !.hits = @ + 1]
            /\ response' = [response EXCEPT ![t] =
                                Returned(CACHE[username[t]].data)]
            /\ pc' = [pc EXCEPT ![t] = "done"]
            /\ LOCK' = None
            /\ requests' = requests
       ELSE IF \E o \in Tasks \ {t} :
                  username[o] = username[t] /\ pc[o] \in {"post", "status",
                                                          "sleep", "dataset"}
       THEN /\ pc' = [pc EXCEPT ![t] = "lock_check"]
            /\ LOCK' = None
            /\ UNCHANGED <<STATS, response, requests>>
       ELSE /\ STATS' = [STATS EXCEPT !.misses = @ + 1]
            /\ response' = response
            /\ pc' = [pc EXCEPT ![t] = "post"]
            /\ LOCK' = LockAfterMiss(t)
            /\ requests' = [requests EXCEPT ![t].post = @ + 1]
    /\ UNCHANGED <<CACHE, now, username, elapsed, waited, formatted, calls,
                   ticks>>

\* The cache check under the lock; on a miss the lock is released, the miss
\* is counted and fetch_from_apify runs up to its client.post.
CacheCheck(t) ==
    /\ pc[t] = "check"
    /\ IF CacheHit(username[t])
       THEN /\ STATS' = [STATS EXCEPT !.hits = @ + 1]
            /\ response' = [response EXCEPT ![t] =
                                Returned(CACHE[username[t]].data)]
            /\ pc' = [pc EXCEPT ![t] = "done"]
            /\ LOCK' = None
            /\ requests' = requests
       ELSE /\ STATS' = [STATS EXCEPT !.misses = @ + 1]
            /\ response' = response
            /\ pc' = [pc EXCEPT ![t] = "post"]
            /\ LOCK' = LockAfterMiss(t)
            /\ requests' = [requests EXCEPT ![t].post = @ + 1]
    /\ UNCHANGED <<CACHE, now, username, elapsed, waited, formatted, calls,
                   ticks>>

\* ---------------------------------------------------------------- fetch_from_apify
\* the loop test off by one
LoopConditionInclusive(e) == e <= MAX_WAIT_TIME

\* `while elapsed < MAX_WAIT_TIME`
LoopCondition(e) == e < MAX_WAIT_TIME

\* the increment of elapsed forgotten
NextElapsedSame(e) == e

\* `elapsed += POLL_INTERVAL`
NextElapsed(e) == e + POLL_INTERVAL

\* the `else` of the while loop: the condition became false without a break
LoopElse == HTTPException(504, [error |-> "APIFY_TIMEOUT"])

\* raised for a run answer whose status code is not 201
RunNotCreated ==
    HTTPException(502, [error |-> "APIFY_RUN_FAILED",
                        detail |-> "run_res.text"])

\* the wall clock of the poll loop is followed up to one second past the
\* wait budget and one more sleep
WaitedCap == MAX_WAIT_TIME + POLL_INTERVAL + 1
AddWait(w, d) == IF w + d > WaitedCap THEN WaitedCap ELSE w + d

\* how long a status answer can take: no time, or nearly the timeout of the
\* client
SlowAnswer == REQUEST_TIMEOUT - 1
Latencies == {0, SlowAnswer}

\* a sleep that backs off: longer after every poll
SleepTimeBackoff(e) == POLL_INTERVAL + e

\* the argument of asyncio.sleep in the pass of the loop that starts with
\* elapsed = e
SleepTime(e) == POLL_INTERVAL

\* 1. Start actor: client.post answers r; on a run with its ids the first
\* status request is sent.
Post(t, r) ==
    /\ pc[t] = "post"
    /\ IF r.transport = "RequestError"
       THEN Raise(t, HTTPException(503, [error |-> "APIFY_UNREACHABLE",
                                         detail |-> "RequestError"]))
       ELSE IF r.status_code # 201
       THEN Raise(t, RunNotCreated)
       ELSE IF ~r.has_ids
       THEN Raise(t, OtherException("KeyError", "'data'"))
       ELSE IF LoopCondition(0)
       THEN /\ pc' = [pc EXCEPT ![t] = "status"]
            /\ elapsed' = [elapsed EXCEPT ![t] = 0]
            /\ waited' = [waited EXCEPT ![t] = 0]
            /\ requests' = [requests EXCEPT ![t].status = @ + 1]
            /\ UNCHANGED <<response, STATS>>
       ELSE Raise(t, LoopElse)
    /\ UNCHANGED <<CACHE, LOCK, now, username, formatted, calls, ticks>>

RunFailedDetail(status) ==
    CASE status = "FAILED" -> "Actor run status: FAILED"
      [] status = "ABORTED" -> "Actor run status: ABORTED"
      [] status = "TIMED-OUT" -> "Actor run status: TIMED-OUT"

\* raised for a status answer FAILED, ABORTED or TIMED-OUT
RunFailed(status) ==
    HTTPException(502, [error |-> "APIFY_RUN_FAILED",
                        detail |-> RunFailedDetail(status)])

\* 2. Poll: client.get(status_url) answers r, d seconds after it was sent;
\* on SUCCEEDED the loop is left and the dataset request is sent.
StatusAfter(t, r, d) ==
    /\ pc[t] = "status"
    /\ IF r.transport = "RequestError"
       THEN Raise(t, OtherException("RequestError", "RequestError"))
       ELSE IF ~r.has_status
       THEN Raise(t, OtherException("KeyError", "'status'"))
       ELSE IF r.status = "SUCCEEDED"
       THEN /\ pc' = [pc EXCEPT ![t] = "dataset"]
            /\ requests' = [requests EXCEPT ![t].dataset = @ + 1]
            /\ waited' = [waited EXCEPT ![t] = AddWait(@, d)]
            /\ UNCHANGED <<elapsed, response, STATS>>
       ELSE IF r.status \in RunFailedStatuses
       THEN Raise(t, RunFailed(r.status))
       ELSE /\ pc' = [pc EXCEPT ![t] = "sleep"]
            /\ waited' = [waited EXCEPT ![t] = AddWait(@, d)]
            /\ UNCHANGED <<elapsed, requests, response, STATS>>
    /\ UNCHANGED <<CACHE, LOCK, now, username, formatted, calls, ticks>>

\* the same with an answer that arrives at once
Status(t, r) == StatusAfter(t, r, 0)

\* asyncio.sleep(POLL_INTERVAL) is over: count it and test the loop again;
\* when the test passes the next status request is sent.
Sleep(t) ==
    /\ pc[t] = "sleep"
    /\ IF LoopCondition(NextElapsed(elapsed[t]))
       THEN /\ pc' = [pc EXCEPT ![t] = "status"]
            /\ elapsed' = [elapsed EXCEPT ![t] = NextElapsed(@)]
            /\ waited' = [waited EXCEPT ![t] =
                              AddWait(@, SleepTime(elapsed[t]))]
            /\ requests' = [requests EXCEPT ![t].status = @ + 1]
            /\ UNCHANGED <<response, STATS>>
       ELSE Raise(t, LoopElse)
    /\ UNCHANGED <<CACHE, LOCK, now, username, formatted, calls, ticks>>

ProfileNotFoundError(message, u) ==
    HTTPException(404, [error |-> "PROFILE_NOT_FOUND",
                        message |-> <<message, u>>])

\* the status check of the dataset answer left out
DatasetOkAlways(r) == TRUE

\* not (data_res.status_code != 200)
DatasetOk(r) == r.status_code = 200

\* the test for the marker left out
IsNotFoundNever(profile) == FALSE

\* profile.get("error") == "not_found"
IsNotFound(profile) == Get(profile, "error") = "not_found"

\* 3. and 4. Fetch dataset: client.get(dataset_url) answers r.  On a profile
\* fetch_from_apify returns it, and get_user goes on to format_profile and to
\* its second `async with LOCK`.
Dataset(t, r) ==
    /\ pc[t] = "dataset"
    /\ IF r.transport = "RequestError"
       THEN /\ Raise(t, OtherException("RequestError", "RequestError"))
            /\ formatted' = formatted
       ELSE IF ~DatasetOk(r)
       THEN /\ Raise(t, HTTPException(502, [error |-> "DATASET_FETCH_FAILED",
                                            detail |-> "data_res.text"]))
            /\ formatted' = formatted
       ELSE IF r.json = "invalid"
       THEN /\ Raise(t, HTTPException(502, [error |-> "INVALID_JSON"]))
            /\ formatted' = formatted
       ELSE IF r.json # "list" \/ Len(r.items) = 0
       THEN /\ Raise(t, ProfileNotFoundError("No data returned for @",
                                             username[t]))
            /\ formatted' = formatted
       ELSE IF ~r.items[1].isdict
       THEN /\ Raise(t, OtherException("AttributeError",
                                       "object has no attribute 'get'"))
            /\ formatted' = formatted
       ELSE IF IsNotFound(r.items[1].fields)
       THEN /\ Raise(t, ProfileNotFoundError("Instagram user does not exist @",
                                             username[t]))
            /\ formatted' = formatted
       ELSE /\ formatted' = [formatted EXCEPT ![t] =
                                 format_profile(r.items[1].fields)]
            /\ pc' = [pc EXCEPT ![t] = "lock_write"]
            /\ elapsed' = [elapsed EXCEPT ![t] = 0]
            /\ waited' = [waited EXCEPT ![t] = 0]
            /\ requests' = [requests EXCEPT ![t] = NoRequests]
            /\ UNCHANGED <<response, STATS>>
    /\ UNCHANGED <<CACHE, LOCK, now, username, calls, ticks>>

\* `async with LOCK` of the cache write is entered.
AcquireWrite(t) ==
    /\ pc[t] = "lock_write"
    /\ LOCK = None
    /\ LOCK' = t
    /\ pc' = [pc EXCEPT ![t] = "write"]
    /\ UNCHANGED <<CACHE, STATS, now, username, elapsed, waited, formatted,
                   response, requests, calls, ticks>>

\* a write that keeps an entry the key already has
CachePutKeepFirst(cache, u, data) ==
    IF u \in DOMAIN cache
    THEN cache
    ELSE (u :> [data |-> data, expiry |-> now + CACHE_TTL]) @@ cache

\* CACHE[username] = {"data": formatted, "expiry": time.time() + CACHE_TTL}
CachePut(cache, u, data) ==
    (u :> [data |-> data, expiry |-> now + CACHE_TTL]) @@ cache

\* The cache write under the lock, the release and `return formatted`.
CacheWrite(t) ==
    /\ pc[t] = "write"
    /\ CACHE' = CachePut(CACHE, username[t], formatted[t])
    /\ LOCK' = None
    /\ response' = [response EXCEPT ![t] = Returned(formatted[t])]
    /\ pc' = [pc EXCEPT ![t] = "done"]
    /\ UNCHANGED <<STATS, now, username, elapsed, waited, formatted, requests,
                   calls, ticks>>

\* ---------------------------------------------------------------- get_stats
StartGetStats(t) ==
    /\ pc[t] = "idle"
    /\ calls < MaxCalls
    /\ calls' = calls + 1
    /\ pc' = [pc EXCEPT ![t] = "lock_stats"]
    /\ UNCHANGED <<CACHE, STATS, LOCK, now, username, elapsed, waited,
                   formatted, response, requests, ticks>>

AcquireStats(t) ==
    /\ pc[t] = "lock_stats"
    /\ LOCK = None
    /\ LOCK' = t
    /\ pc' = [pc EXCEPT ![t] = "stats"]
    /\ UNCHANGED <<CACHE, STATS, now, username, elapsed, waited, formatted,
                   response, requests, calls, ticks>>

ReadStats(t) ==
    /\ pc[t] = "stats"
    /\ LOCK' = None
    /\ response' = [response EXCEPT ![t] =
           Returned([cache_size |-> Cardinality(DOMAIN CACHE),
                     cache_hits |-> STATS.hits,
                     cache_misses |-> STATS.misses,
                     last_alerts |-> STATS.last_alerts])]
    /\ pc' = [pc EXCEPT ![t] = "done"]
    /\ UNCHANGED <<CACHE, STATS, now, username, elapsed, waited, formatted,
                   requests, calls, ticks>>

\* ---------------------------------------------------------------- environment
\* The answer has been sent; the task can serve another request.
Return(t) ==
    /\ pc[t] = "done"
    /\ pc' = [pc EXCEPT ![t] = "idle"]
    /\ username' = [username EXCEPT ![t] = <<>>]
    /\ elapsed' = [elapsed EXCEPT ![t] = 0]
    /\ waited' = [waited EXCEPT ![t] = 0]
    /\ formatted' = [formatted EXCEPT ![t] = NoProfile]
    /\ response' = [response EXCEPT ![t] = NoResponse]
    /\ requests' = [requests EXCEPT ![t] = NoRequests]
    /\ UNCHANGED <<CACHE, STATS, LOCK, now, calls, ticks>>

\* The wall clock advances.
Tick(d) ==
    /\ ticks < MaxTicks
    /\ ticks' = ticks + 1
    /\ now' = now + d
    /\ UNCHANGED <<CACHE, STATS, LOCK, pc, username, elapsed, waited,
                   formatted, response, requests, calls>>

Next ==
    \/ \E t \in Tasks, u \in Usernames : StartGetUser(t, u)
    \/ \E t \in Tasks : AcquireCheck(t)
    \/ \E t \in Tasks : CacheCheck(t)
    \/ \E t \in Tasks, r \in RunResponses : Post(t, r)
    \/ \E t \in Tasks, r \in StatusResponses : Status(t, r)
    \/ \E t \in Tasks : Sleep(t)
    \/ \E t \in Tasks, r \in DatasetResponses : Dataset(t, r)
    \/ \E t \in Tasks : AcquireWrite(t)
    \/ \E t \in Tasks : CacheWrite(t)
    \/ \E t \in Tasks : StartGetStats(t)
    \/ \E t \in Tasks : AcquireStats(t)
    \/ \E t \in Tasks : ReadStats(t)
    \/ \E t \in Tasks : Return(t)
    \/ \E d \in TickSteps : Tick(d)

Spec == Init /\ [][Next]_vars

\* The same program with status answers that take time.
TimedNext ==
    \/ \E t \in Tasks, u \in Usernames : StartGetUser(t, u)
    \/ \E t \in Tasks : AcquireCheck(t)
    \/ \E t \in Tasks : CacheCheck(t)
    \/ \E t \in Tasks, r \in RunResponses : Post(t, r)
    \/ \E t \in Tasks, r \in StatusResponses, d \in Latencies :
          StatusAfter(t, r, d)
    \/ \E t \in Tasks : Sleep(t)
    \/ \E t \in Tasks, r \in DatasetResponses : Dataset(t, r)
    \/ \E t \in Tasks : AcquireWrite(t)
    \/ \E t \in Tasks : CacheWrite(t)
    \/ \E t \in Tasks : StartGetStats(t)
    \/ \E t \in Tasks : AcquireStats(t)
    \/ \E t \in Tasks : ReadStats(t)
    \/ \E t \in Tasks : Return(t)
    \/ \E d \in TickSteps : Tick(d)

TimedSpec == Init /\ [][TimedNext]_vars

\* Every remote request is answered or fails (the client is built with
\* timeout=REQUEST_TIMEOUT), every sleep ends and a free lock is handed to a
\* waiter; whether another request arrives is up to the callers.
Step(t) ==
    \/ AcquireCheck(t)
    \/ CacheCheck(t)
    \/ \E r \in RunResponses : Post(t, r)
    \/ \E r \in StatusResponses : Status(t, r)
    \/ Sleep(t)
    \/ \E r \in DatasetResponses : Dataset(t, r)
    \/ AcquireWrite(t)
    \/ CacheWrite(t)
    \/ AcquireStats(t)
    \/ ReadStats(t)

FairSpec == Spec /\ \A t \in Tasks : WF_vars(Step(t))

\* ================================================================ claims
\* states of a get_user invocation that is inside fetch_from_apify
InPoller == {"post", "status", "sleep", "dataset"}
\* states of a get_user invocation past its validation and not yet answered
PastValidation ==
    {"lock_check", "check", "lock_write", "write"} \cup InPoller
\* the number of status polls that fill the wait budget
MaxPolls == MAX_WAIT_TIME \div POLL_INTERVAL
\* the task has just been answered
Answered(t) == pc[t] # "done" /\ pc'[t] = "done"
\* the answer of the task is the failure with this status code and error code
Failed(resp, code, error) ==
    /\ resp.raised = "HTTPException"
    /\ resp.status_code = code
    /\ resp.detail.error = error

\* C1: a cache check that finds an entry of its key that has not expired
\* answers with the payload of that entry and does not enter the job poller,
\* and the entry a successful resolve writes holds exactly the payload that
\* resolve returns, expiring CACHE_TTL after the write.
ThmC1 ==
    [][\A t \in Tasks :
        /\ (pc[t] = "check" /\ pc'[t] # "check"
              /\ username[t] \in DOMAIN CACHE
              /\ now < CACHE[username[t]].expiry)
           => /\ pc'[t] = "done"
              /\ response'[t] = Returned(CACHE[username[t]].data)
              /\ requests'[t] = NoRequests
              /\ STATS'.misses = STATS.misses
              /\ CACHE' = CACHE
        /\ (pc[t] = "write" /\ pc'[t] # "write")
           => /\ pc'[t] = "done"
              /\ response'[t].status_code = 200
              /\ CACHE'[username[t]] =
                    [data |-> response'[t].detail,
                     expiry |-> now + CACHE_TTL]
      ]_vars

\* C1 witness: two resolves so far, the first one missed and wrote the
\* entry, the second one was answered from it.
WitC1 ==
    \E t \in Tasks :
        /\ pc[t] = "done"
        /\ username[t] = Nasa
        /\ STATS.hits = 1 /\ STATS.misses = 1
        /\ Nasa \in DOMAIN CACHE
        /\ response[t] = Returned(CACHE[Nasa].data)

\* C2 (as claimed): once a resolve has been answered PROFILE_NOT_FOUND, the
\* cache holds an entry for its key that has not expired.
CexC2 ==
    \A t \in Tasks :
        (pc[t] = "done" /\ Failed(response[t], 404, "PROFILE_NOT_FOUND"))
        => /\ username[t] \in DOMAIN CACHE
           /\ now < CACHE[username[t]].expiry

\* C3 (as claimed): a username outside the key grammar never gets past the
\* validation of get_user.
CexC3 ==
    \A t \in Tasks :
        pc[t] \in PastValidation => InGrammar(username[t])

\* C4: when the wait budget has been used up by status polls that all
\* answered a status that is not terminal, the invocation is answered
\* APIFY_TIMEOUT (504), it has asked for no dataset, and the cache is left
\* as it is.
ThmC4 ==
    [][\A t \in Tasks :
        (pc[t] = "sleep" /\ pc'[t] # "sleep"
           /\ requests[t].status >= MaxPolls)
        => /\ pc'[t] = "done"
           /\ Failed(response'[t], 504, "APIFY_TIMEOUT")
           /\ requests[t].dataset = 0
           /\ CACHE' = CACHE
      ]_vars

\* C4 witness: an invocation answered APIFY_TIMEOUT while the cache is empty
WitC4 ==
    \E t \in Tasks :
        /\ pc[t] = "done"
        /\ Failed(response[t], 504, "APIFY_TIMEOUT")
        /\ DOMAIN CACHE = {}

\* payloads made from the first element of a dataset answer that has
\* status 200, is a non-empty list and starts with a profile
GoodPayloads ==
    {format_profile(r.items[1].fields) :
        r \in {x \in DatasetResponses :
                 /\ x.transport = "ok" /\ x.status_code = 200
                 /\ x.json = "list" /\ Len(x.items) > 0
                 /\ x.items[1].isdict
                 /\ Get(x.items[1].fields, "error") # "not_found"}}

\* C5: every cache entry holds the payload of a successful dataset answer;
\* the cache changes only in the step in which a resolve returns its
\* profile, and a resolve that is answered with an upstream failure or
\* INTERNAL_ERROR (500, 502, 503, 504) leaves it as it is.
ThmC5 ==
    /\ [](\A u \in DOMAIN CACHE : CACHE[u].data \in GoodPayloads)
    /\ [][/\ CACHE' # CACHE
             => \E t \in Tasks :
                   /\ pc[t] = "write" /\ pc'[t] = "done"
                   /\ response'[t] = Returned(formatted[t])
                   /\ CACHE' = (username[t] :>
                                   [data |-> formatted[t],
                                    expiry |-> now + CACHE_TTL]) @@ CACHE
          /\ \A t \in Tasks :
                (Answered(t) /\ response'[t].raised = "HTTPException"
                   /\ response'[t].status_code \in {500, 502, 503, 504})
                => CACHE' = CACHE
        ]_vars

\* C5 witness: one resolve has written an entry and another one has been
\* answered DATASET_FETCH_FAILED
WitC5 ==
    \E t \in Tasks :
        /\ pc[t] = "done"
        /\ Failed(response[t], 502, "DATASET_FETCH_FAILED")
        /\ DOMAIN CACHE # {}

\* C6 (as claimed): a dataset answer with a status other than 200 is
\* answered DATASET_FETCH_FAILED and leaves the cache as it is, while a
\* dataset answer classified PROFILE_NOT_FOUND puts an entry for the key
\* into the cache; the two answers differ in status code and error code.
CexC6 ==
    [][\A t \in Tasks :
        (pc[t] = "dataset" /\ Answered(t))
        => /\ Failed(response'[t], 502, "DATASET_FETCH_FAILED")
              => CACHE' = CACHE
           /\ Failed(response'[t], 404, "PROFILE_NOT_FOUND")
              => /\ username[t] \in DOMAIN CACHE'
                 /\ CACHE' # CACHE
      ]_vars

\* the answers get_user gives for a failure of the remote side
UpstreamFailures ==
    {<<503, "APIFY_UNREACHABLE">>, <<502, "APIFY_RUN_FAILED">>,
     <<504, "APIFY_TIMEOUT">>, <<502, "DATASET_FETCH_FAILED">>}

\* C7 (as claimed): in the step in which a resolve is answered with an
\* upstream failure, one alert is added to the alerts of the notifier; in
\* the step in which it is answered INVALID_USERNAME or PROFILE_NOT_FOUND,
\* none is.
CexC7 ==
    [][\A t \in Tasks :
        (Answered(t) /\ response'[t].raised = "HTTPException")
        => /\ <<response'[t].status_code, response'[t].detail.error>>
                 \in UpstreamFailures
              => Len(STATS'.last_alerts) = Len(STATS.last_alerts) + 1
           /\ response'[t].status_code \in {400, 404}
              => STATS'.last_alerts = STATS.last_alerts
      ]_vars

\* C8: a cache check that finds no live entry of its key goes on to its own
\* client.post whatever the other invocations are doing, and every
\* invocation that is polling or fetching has sent its own post.
ThmC8 ==
    /\ [](\A t \in Tasks : pc[t] \in InPoller => requests[t].post = 1)
    /\ [][\A t \in Tasks :
            (pc[t] = "check" /\ pc'[t] # "check"
               /\ ~(username[t] \in DOMAIN CACHE
                      /\ now < CACHE[username[t]].expiry))
            => /\ pc'[t] = "post"
               /\ requests'[t].post = requests[t].post + 1
               /\ STATS'.misses = STATS.misses + 1
        ]_vars

\* C8 witness: two invocations for the same username are both inside the
\* job poller, each with its own post sent, and the cache is still empty
WitC8 ==
    \E t1, t2 \in Tasks :
        /\ t1 # t2
        /\ username[t1] = Nasa /\ username[t2] = Nasa
        /\ pc[t1] \in InPoller
        /\ pc[t2] \in InPoller
        /\ requests[t1].post = 1 /\ requests[t2].post = 1
        /\ STATS.misses = 2
        /\ DOMAIN CACHE = {}

\* C9: the lock is never held by an invocation that is inside the job
\* poller; whoever holds it is at its cache check, its cache write or its
\* stats read, none of which waits for the remote side.
ThmC9 ==
    /\ \A t \in Tasks : pc[t] \in InPoller => LOCK # t
    /\ LOCK # None => pc[LOCK] \in {"check", "write", "stats"}

\* C9 witness: one invocation is waiting for the remote side while another
\* one holds the lock for its cache check
WitC9 ==
    \E t1, t2 \in Tasks :
        /\ t1 # t2
        /\ pc[t1] \in InPoller
        /\ LOCK = t2
        /\ pc[t2] = "check"

\* C10: every invocation is answered, also when the run stays READY or
\* RUNNING for ever; and an invocation sends at most one post, at most
\* MaxPolls status requests and at most one dataset request.
ThmC10 ==
    /\ \A t \in Tasks : (pc[t] # "idle") ~> (pc[t] = "done")
    /\ [](\A t \in Tasks :
            /\ requests[t].post <= 1
            /\ requests[t].status <= MaxPolls
            /\ requests[t].dataset <= 1)

\* C10 witness: both tasks have been answered, one of them APIFY_TIMEOUT
WitC10 ==
    \E t1, t2 \in Tasks :
        /\ t1 # t2
        /\ pc[t1] = "done" /\ pc[t2] = "done"
        /\ Failed(response[t1], 504, "APIFY_TIMEOUT")
        /\ response[t2].status_code # 0

\* C11 (as claimed): the entry stored for a resolve that is answered
\* PROFILE_NOT_FOUND expires later than an entry with the positive lifetime
\* CACHE_TTL written at the same instant.
CexC11 ==
    [][\A t \in Tasks :
        (Answered(t) /\ Failed(response'[t], 404, "PROFILE_NOT_FOUND"))
        => /\ username[t] \in DOMAIN CACHE'
           /\ CACHE'[username[t]].expiry > now + CACHE_TTL
      ]_vars

\* C12: the cache check is a hit exactly when the cache holds an entry of
\* the username and now < expiry; a hit counts a hit and answers with the
\* entry, anything else (no entry, or now >= expiry) counts a miss and goes
\* on to the job poller; and no entry expires later than CACHE_TTL from now,
\* so a hit is never served from an entry written CACHE_TTL ago or earlier.
ThmC12 ==
    /\ [](\A u \in DOMAIN CACHE : CACHE[u].expiry <= now + CACHE_TTL)
    /\ [][\A t \in Tasks :
            (pc[t] = "check" /\ pc'[t] # "check")
            => IF username[t] \in DOMAIN CACHE
                  /\ now < CACHE[username[t]].expiry
               THEN /\ pc'[t] = "done"
                    /\ response'[t] = Returned(CACHE[username[t]].data)
                    /\ STATS'.hits = STATS.hits + 1
                    /\ STATS'.misses = STATS.misses
                    /\ now - (CACHE[username[t]].expiry - CACHE_TTL)
                          < CACHE_TTL
               ELSE /\ pc'[t] = "post"
                    /\ STATS'.hits = STATS.hits
                    /\ STATS'.misses = STATS.misses + 1
        ]_vars

\* C12 witness: an invocation has missed and entered the job poller at the
\* very instant at which the entry of its username expires
WitC12 ==
    \E t \in Tasks :
        /\ pc[t] = "post"
        /\ username[t] \in DOMAIN CACHE
        /\ now = CACHE[username[t]].expiry
        /\ STATS.misses = 2

\* status answers that make the poll raise something that is not an
\* HTTPException: a transport error, and a body without data.status
UnclassifiedStatusAnswers ==
    {r \in StatusResponses : r.transport = "RequestError" \/ ~r.has_status}

\* C13: no exception other than an HTTPException reaches the caller; a
\* transport error or a malformed body during a status poll is answered
\* INTERNAL_ERROR (500); and the step that answers INTERNAL_ERROR appends
\* the alert for it to the alerts of the notifier and leaves the cache as it
\* is.
ThmC13 ==
    /\ [](\A t \in Tasks :
            pc[t] = "done" => response[t].raised \in {"no", "HTTPException"})
    /\ [][\A t \in Tasks :
            /\ (\E r \in UnclassifiedStatusAnswers : Status(t, r))
               => Failed(response'[t], 500, "INTERNAL_ERROR")
            /\ (Answered(t) /\ Failed(response'[t], 500, "INTERNAL_ERROR"))
               => /\ pc[t] \in InPoller
                  /\ CACHE' = CACHE
                  /\ Len(STATS'.last_alerts) = Len(STATS.last_alerts) + 1
                  /\ STATS'.last_alerts[Len(STATS'.last_alerts)] =
                        [time |-> now,
                         msg |-> <<"[", username[t], "] Attempt ", 1,
                                   " failed", " | Error: ",
                                   response'[t].detail.detail>>]
        ]_vars

\* C13 witness: a status poll failed with a transport error; the caller got
\* INTERNAL_ERROR, the alert is recorded and the cache is empty
WitC13 ==
    \E t \in Tasks :
        /\ pc[t] = "done"
        /\ Failed(response[t], 500, "INTERNAL_ERROR")
        /\ response[t].detail.detail = "RequestError"
        /\ Len(STATS.last_alerts) = 1
        /\ DOMAIN CACHE = {}

\* C14 (as claimed): an invocation that is answered while it waits for the
\* answer to its post is answered APIFY_UNREACHABLE (503) or
\* APIFY_RUN_FAILED (502), never INTERNAL_ERROR, and it has sent no status
\* and no dataset request.
CexC14 ==
    [][\A t \in Tasks :
        (pc[t] = "post" /\ Answered(t))
        => /\ \/ Failed(response'[t], 503, "APIFY_UNREACHABLE")
              \/ Failed(response'[t], 502, "APIFY_RUN_FAILED")
           /\ requests[t].status = 0
           /\ requests[t].dataset = 0
      ]_vars

\* what a caller can tell a failure by: its status code and its error code
Kind(resp) == <<resp.status_code, resp.detail.error>>
\* the status answers that end the run unsuccessfully
RunFailedAnswers ==
    {r \in StatusResponses :
        r.transport = "ok" /\ r.has_status /\ r.status \in RunFailedStatuses}

\* C15 (as claimed): a status answer FAILED, ABORTED or TIMED-OUT ends the
\* invocation at once with a failure; the invocation sends no further status
\* request and no dataset request, and the kind of its failure is neither
\* the kind raised when the wait budget is used up nor the kind raised when
\* the run was not created.
CexC15 ==
    [][\A t \in Tasks : \A r \in RunFailedAnswers :
        Status(t, r)
        => /\ pc'[t] = "done"
           /\ requests'[t] = NoRequests
           /\ response'[t].raised = "HTTPException"
           /\ Kind(response'[t]) # Kind(LoopElse)
           /\ Kind(response'[t]) # Kind(RunNotCreated)
      ]_vars

\* C16 (as claimed): the poll loop gives up once the wall clock it has spent,
\* the time waiting for each status answer and the sleeps alike, exceeds
\* MAX_WAIT_TIME: a status request is in flight only while that time is
\* within MAX_WAIT_TIME, and the time an invocation spends polling never
\* exceeds MAX_WAIT_TIME plus one sleep, however late the answers come.
CexC16 ==
    \A t \in Tasks :
        /\ pc[t] = "status" => waited[t] <= MAX_WAIT_TIME
        /\ pc[t] \in {"status", "sleep"}
           => waited[t] <= MAX_WAIT_TIME + POLL_INTERVAL

\* the answers that let an invocation go on: a run created with both ids, a
\* status SUCCEEDED, and a dataset answer 200 whose list has a first element
\* without the not-found marker
GoodRun(r) == r.transport = "ok" /\ r.status_code = 201 /\ r.has_ids
GoodStatus(r) == r.transport = "ok" /\ r.has_status /\ r.status = "SUCCEEDED"
GoodDataset(r) ==
    /\ r.transport = "ok" /\ r.status_code = 200
    /\ r.json = "list" /\ Len(r.items) > 0
    /\ r.items[1].isdict
    /\ ~("error" \in DOMAIN r.items[1].fields
          /\ r.items[1].fields["error"] = "not_found")
\* the fields of the answer and the upstream fields they are taken from
FieldMap ==
    {<<"username", "username">>, <<"real_name", "fullName">>,
     <<"profile_pic", "profilePicUrl">>, <<"followers", "followersCount">>,
     <<"following", "followsCount">>, <<"post_count", "postsCount">>,
     <<"bio", "biography">>}
\* out is the projection of the upstream element: every field is the
\* upstream value, or None when upstream does not have it
Projection(fields, out) ==
    /\ DOMAIN out = {m[1] : m \in FieldMap}
    /\ \A m \in FieldMap :
          out[m[1]] = IF m[2] \in DOMAIN fields THEN fields[m[2]] ELSE None

\* C17: an invocation that missed the cache returns a profile only by way of
\* a run answer 201 with both ids, a status answer SUCCEEDED and a dataset
\* answer 200 with a non-empty list whose first element lacks the not-found
\* marker; it leaves each phase either that way or answered with a failure;
\* what it returns is the projection of that first element, absent fields
\* as None.
ThmC17 ==
    [][\A t \in Tasks :
        /\ (pc[t] = "post" /\ pc'[t] # "post")
           => IF pc'[t] = "status"
              THEN \A r \in RunResponses : Post(t, r) => GoodRun(r)
              ELSE /\ pc'[t] = "done"
                   /\ response'[t].raised = "HTTPException"
        /\ (pc[t] = "status" /\ pc'[t] \notin {"status", "sleep"})
           => IF pc'[t] = "dataset"
              THEN \A r \in StatusResponses : Status(t, r) => GoodStatus(r)
              ELSE /\ pc'[t] = "done"
                   /\ response'[t].raised = "HTTPException"
        /\ (pc[t] = "dataset" /\ pc'[t] # "dataset")
           => IF pc'[t] = "lock_write"
              THEN \A r \in DatasetResponses :
                      Dataset(t, r)
                      => /\ GoodDataset(r)
                         /\ Projection(r.items[1].fields, formatted'[t])
              ELSE /\ pc'[t] = "done"
                   /\ response'[t].raised = "HTTPException"
        /\ (pc'[t] = "status" /\ pc[t] # "status")
           => pc[t] \in {"post", "sleep"}
        /\ (pc'[t] = "sleep" /\ pc[t] # "sleep") => pc[t] = "status"
        /\ (pc'[t] = "dataset" /\ pc[t] # "dataset") => pc[t] = "status"
        /\ (pc'[t] = "lock_write" /\ pc[t] # "lock_write")
           => pc[t] = "dataset"
        /\ (pc'[t] = "write" /\ pc[t] # "write") => pc[t] = "lock_write"
        /\ (pc[t] \in {"lock_write", "write"}
              /\ pc'[t] \in {"lock_write", "write"})
           => formatted'[t] = formatted[t]
        /\ (Answered(t) /\ response'[t].raised = "no")
           => \/ pc[t] = "write" /\ response'[t] = Returned(formatted[t])
              \/ pc[t] = "check" /\ username[t] \in DOMAIN CACHE
              \/ pc[t] = "stats"
      ]_vars

\* C17 witness: an invocation that missed the cache has returned the
\* projection of a first element that lacks most fields
WitC17 ==
    \E t \in Tasks :
        /\ pc[t] = "done"
        /\ STATS.hits = 0
        /\ STATS.misses > 0
        /\ response[t] = Returned(format_profile(ProfileSparse.fields))
        /\ response[t].detail.bio = None
        /\ response[t].detail.followers = "100"

\* C18: the cache has one entry per key, a record of a payload and an
\* expiry; a cache write leaves under its key exactly the payload of the
\* writing invocation with the expiry now + CACHE_TTL, whatever was there
\* before, and leaves every other key as it was; nothing else changes the
\* cache, so the entry of a key is the one of the last write; no key is ever
\* removed and the expiry of a key never decreases.
ThmC18 ==
    /\ [](/\ DOMAIN CACHE \subseteq Usernames
          /\ \A u \in DOMAIN CACHE : DOMAIN CACHE[u] = {"data", "expiry"})
    /\ [][/\ \A t \in Tasks :
                (pc[t] = "write" /\ pc'[t] = "done")
                => /\ DOMAIN CACHE' = DOMAIN CACHE \cup {username[t]}
                   /\ CACHE'[username[t]].data = formatted[t]
                   /\ CACHE'[username[t]].expiry = now + CACHE_TTL
                   /\ \A u \in DOMAIN CACHE \ {username[t]} :
                         CACHE'[u] = CACHE[u]
          /\ CACHE' # CACHE
             => \E t \in Tasks : pc[t] = "write" /\ pc'[t] = "done"
          /\ \A u \in DOMAIN CACHE :
                /\ u \in DOMAIN CACHE'
                /\ CACHE'[u].expiry >= CACHE[u].expiry
        ]_vars

\* C18 witness: two invocations of the same key both missed and both
\* returned, with different payloads, and time has passed; the cache holds
\* the payload of one of them, with the expiry of a write at the present
\* time
WitC18 ==
    \E t1, t2 \in Tasks :
        /\ t1 # t2
        /\ pc[t1] = "done" /\ pc[t2] = "done"
        /\ username[t1] = Nasa /\ username[t2] = Nasa
        /\ STATS.misses = 2 /\ STATS.hits = 0
        /\ response[t1] = Returned(format_profile(ProfileFull.fields))
        /\ response[t2] = Returned(format_profile(ProfileSparse.fields))
        /\ now > 0
        /\ DOMAIN CACHE = {Nasa}
        /\ CACHE[Nasa] = [data |-> format_profile(ProfileSparse.fields),
                          expiry |-> now + CACHE_TTL]

\* the invocation leaves its cache check in this step
Checked(t) == pc[t] = "check" /\ pc'[t] # "check"
\* the invocation enters fetch_from_apify in this step
PollerStarted(t) == pc[t] \notin InPoller /\ pc'[t] \in InPoller

\* C19 (as claimed): hits + misses counts the invocations with a key of the
\* key grammar that have left their cache check: such an invocation adds one
\* to exactly one of the two counters as it leaves the check, and nothing
\* else changes them; misses counts the job pollers started; no key leaves
\* the cache, and the cache size that get_stats reports is the number of
\* keys in it.
CexC19 ==
    [][/\ \A t \in Tasks :
             (Checked(t) /\ InGrammar(username[t]))
             => \/ /\ STATS'.hits = STATS.hits + 1
                   /\ STATS'.misses = STATS.misses
                \/ /\ STATS'.hits = STATS.hits
                   /\ STATS'.misses = STATS.misses + 1
       /\ (STATS'.hits # STATS.hits \/ STATS'.misses # STATS.misses)
          => \E t \in Tasks : Checked(t) /\ InGrammar(username[t])
       /\ STATS'.misses = STATS.misses + 1
          <=> \E t \in Tasks : PollerStarted(t)
       /\ STATS'.misses \in {STATS.misses, STATS.misses + 1}
       /\ DOMAIN CACHE \subseteq DOMAIN CACHE'
       /\ \A t \in Tasks :
             (pc[t] = "stats" /\ pc'[t] = "done")
             => /\ response'[t].detail.cache_size = Cardinality(DOMAIN CACHE)
                /\ response'[t].detail.cache_hits = STATS.hits
                /\ response'[t].detail.cache_misses = STATS.misses
      ]_vars

\* C20: an invocation in the job poller has sent exactly one post; it sends
\* status requests only after a run answer 201 with both ids, at most
\* MAX_WAIT_TIME / POLL_INTERVAL of them, the k-th one (k - 1) * POLL_INTERVAL
\* seconds after the first when answers arrive at once; it sends at most one
\* dataset request, and only on a status answer SUCCEEDED.
ThmC20 ==
    /\ [](\A t \in Tasks :
            /\ pc[t] \notin InPoller => requests[t] = NoRequests
            /\ pc[t] = "post"
               => requests[t] = [post |-> 1, status |-> 0, dataset |-> 0]
            /\ pc[t] \in {"status", "sleep"}
               => /\ requests[t].post = 1
                  /\ requests[t].status \in 1..MaxPolls
                  /\ requests[t].dataset = 0
                  /\ waited[t] = (requests[t].status - 1) * POLL_INTERVAL
            /\ pc[t] = "dataset"
               => /\ requests[t].post = 1
                  /\ requests[t].status \in 1..MaxPolls
                  /\ requests[t].dataset = 1)
    /\ [][\A t \in Tasks :
            /\ requests'[t].post > requests[t].post
               => pc[t] = "check" /\ pc'[t] = "post"
            /\ requests'[t].status > requests[t].status
               => /\ requests'[t].status = requests[t].status + 1
                  /\ \/ /\ pc[t] = "post"
                        /\ \A r \in RunResponses : Post(t, r) => GoodRun(r)
                     \/ /\ pc[t] = "sleep"
                        /\ waited'[t] = waited[t] + POLL_INTERVAL
            /\ requests'[t].dataset > requests[t].dataset
               => /\ pc[t] = "status"
                  /\ \A r \in StatusResponses :
                        Status(t, r) => GoodStatus(r)
        ]_vars

\* C20 witness: an invocation has sent its dataset request after one post
\* and the full number of status requests
WitC20 ==
    \E t \in Tasks :
        /\ pc[t] = "dataset"
        /\ requests[t] = [post |-> 1, status |-> MaxPolls, dataset |-> 1]
        /\ waited[t] = (MaxPolls - 1) * POLL_INTERVAL

====
